---- MODULE Spec2Model ----
(***************************************************************************)
(* Model of transactional_dict.py: TransactionalDict (an overlay of        *)
(* pending changes over a caller-owned dict) and the transaction()         *)
(* context manager.                                                        *)
(*                                                                         *)
(* Python objects have identity, so the model keeps a heap: `dicts` holds  *)
(* the plain dict objects (dict 1 is the base handed to the top-level      *)
(* wrapper), `wrappers` holds the TransactionalDict objects (wrapper 1 is  *)
(* the top-level one).  A value is a tagged pair:                          *)
(*    <<"s", i>>  a scalar          <<"d", i>>  a reference to dict i      *)
(*    <<"w", i>>  a reference to wrapper i      <<"U", 0>>  class Undefined*)
(***************************************************************************)
EXTENDS Integers, Sequences, FiniteSets, TLC

VARIABLES
    dicts,      \* heap of plain dict objects: Seq of [subset of Keys -> value]
    wrappers,   \* heap of TransactionalDict objects: Seq of [_original, _overlay]
    last,       \* the call just made and what it returned or raised
    B0,         \* contents of the base (deep) when the current transaction began
    pc,         \* "api": methods called directly; else position in transaction()
    arg,        \* the argument handed to transaction()
    made,       \* the calls transaction() itself made on its wrapper, in order
    steps,      \* number of calls made so far
    since,      \* number of wrappers there were when the current transaction began
    ref         \* a plain dict given the set and delete calls made on the top-level wrapper

vars == <<dicts, wrappers, last, B0, pc, arg, made, steps, since, ref>>

\* ---------------------------------------------------------------- bounds
MaxDicts == 4       \* dict objects ever allocated
MaxWrappers == 3    \* TransactionalDict objects ever allocated
MaxSteps == 5       \* calls made by the caller in one behaviour

Keys == {"a", "n"}
Scalars == {<<"s", "x">>, <<"s", "y">>}
NoKey == "-"

\* ---------------------------------------------------------------- values
Undefined == <<"U", 0>>
None == <<"N", 0>>
DictRef(d) == <<"d", d>>
WrapRef(w) == <<"w", w>>
IsDict(v) == v[1] = "d"
IsTransactionalDict(v) == v[1] = "w"
Id(v) == v[2]

EmptyDict == [k \in {} |-> None]
Put(f, k, v) == [x \in (DOMAIN f) \cup {k} |-> IF x = k THEN v ELSE f[x]]
Remove(f, k) == [x \in (DOMAIN f) \ {k} |-> f[x]]

\* What a call did: a return value or a raised exception.
Returned(v) == <<"return", v>>
Raised(e) == <<"raise", e>>
KeyErrorDeleted == <<"KeyError", "has been deleted in current transaction">>
KeyErrorKey == <<"KeyError", "key">>
KeyErrorNotIn == <<"KeyError", "not in original dict nor in transaction">>

\* A call: the method, the wrapper and key it was made on, its argument, its
\* outcome, and `chain`: the successful calls (at most two) made immediately
\* before it on the same wrapper and key.
Call(op, w, k, v, res) ==
    [op |-> op, w |-> w, key |-> k, val |-> v, res |-> res, chain |-> << >>]
After(prev, call) ==
    IF prev.w = call.w /\ prev.key = call.key /\ prev.res[1] = "return"
    THEN [call EXCEPT !.chain = IF Len(prev.chain) = 0 THEN <<prev.op>>
                                ELSE <<prev.chain[Len(prev.chain)], prev.op>>]
    ELSE call

\* The dict contents reachable from dict d, nested dicts expanded in place.
RECURSIVE Deep(_, _)
Deep(D, d) ==
    [k \in DOMAIN D[d] |->
        IF IsDict(D[d][k]) THEN <<"m", Deep(D, Id(D[d][k]))>> ELSE D[d][k]]

TransactionalDict(original) == [_original |-> original, _overlay |-> EmptyDict]

Root == 1
Overlay(w) == wrappers[w]._overlay
Original(w) == dicts[wrappers[w]._original]
Wrappers == 1..Len(wrappers)

\* ------------------------------------------------------------ the methods
\* Each method is an operator from the heap (D, W) and the arguments to the
\* heap after the call and the call's outcome.
Outcome(D, W, res) == [dicts |-> D, wrappers |-> W, res |-> res]

\* Mutant of getitem: the deletion marker is not looked at, so a key marked
\* deleted reads through to the base.
getitemIgnoresMarker(D, W, w, key) ==
    LET overlay == W[w]._overlay
        original == D[W[w]._original]
    IN  IF key \in DOMAIN overlay /\ overlay[key] # Undefined
        THEN Outcome(D, W, Returned(overlay[key]))
        ELSE IF key \notin DOMAIN original
             THEN Outcome(D, W, Raised(KeyErrorKey))
             ELSE Outcome(D, W, Returned(original[key]))

\* Mutant of getitem: a dict of the original is wrapped on every read, also
\* when the overlay already holds a wrapper for the key.
getitemRewraps(D, W, w, key) ==
    LET overlay == W[w]._overlay
        original == D[W[w]._original]
        new == Len(W) + 1
    IN  IF key \in DOMAIN overlay /\ ~IsTransactionalDict(overlay[key])
        THEN IF overlay[key] = Undefined
             THEN Outcome(D, W, Raised(KeyErrorDeleted))
             ELSE Outcome(D, W, Returned(overlay[key]))
        ELSE IF key \notin DOMAIN original
             THEN Outcome(D, W, Raised(KeyErrorKey))
             ELSE IF IsDict(original[key])
                  THEN Outcome(D,
                               [Append(W, TransactionalDict(Id(original[key])))
                                   EXCEPT ![w]._overlay = Put(@, key, WrapRef(new))],
                               Returned(WrapRef(new)))
                  ELSE Outcome(D,
                               [W EXCEPT ![w]._overlay = Put(@, key, original[key])],
                               Returned(original[key]))

\* __getitem__, lines 115-125
getitem(D, W, w, key) ==
    LET overlay == W[w]._overlay
        original == D[W[w]._original]
    IN  IF key \in DOMAIN overlay
        THEN IF overlay[key] = Undefined
             THEN Outcome(D, W, Raised(KeyErrorDeleted))
             ELSE Outcome(D, W, Returned(overlay[key]))
        ELSE IF key \notin DOMAIN original
             THEN Outcome(D, W, Raised(KeyErrorKey))
             ELSE IF IsDict(original[key])
                  THEN LET new == Len(W) + 1
                           W1 == Append(W, TransactionalDict(Id(original[key])))
                       IN  Outcome(D,
                                   [W1 EXCEPT ![w]._overlay = Put(@, key, WrapRef(new))],
                                   Returned(WrapRef(new)))
                  ELSE Outcome(D,
                               [W EXCEPT ![w]._overlay = Put(@, key, original[key])],
                               Returned(original[key]))

\* Mutant of setitem: the value is also written to the original.
setitemWritesThrough(D, W, w, key, value) ==
    Outcome([D EXCEPT ![W[w]._original] = Put(@, key, value)],
            [W EXCEPT ![w]._overlay = Put(@, key, value)], Returned(None))

\* Mutant of setitem: a deletion marker already staged for the key is kept.
setitemKeepsMarker(D, W, w, key, value) ==
    IF key \in DOMAIN W[w]._overlay /\ W[w]._overlay[key] = Undefined
    THEN Outcome(D, W, Returned(None))
    ELSE Outcome(D, [W EXCEPT ![w]._overlay = Put(@, key, value)], Returned(None))

\* __setitem__, lines 127-128
setitem(D, W, w, key, value) ==
    Outcome(D, [W EXCEPT ![w]._overlay = Put(@, key, value)], Returned(None))

\* Mutant of delitem: the marker is staged before the key is looked up.
delitemMarksFirst(D, W, w, key) ==
    LET W1 == [W EXCEPT ![w]._overlay = Put(@, key, Undefined)]
    IN  IF key \in DOMAIN D[W[w]._original]
        THEN Outcome(D, W1, Returned(None))
        ELSE IF key \in DOMAIN W[w]._overlay
             THEN Outcome(D, [W EXCEPT ![w]._overlay = Remove(@, key)], Returned(None))
             ELSE Outcome(D, W1, Raised(KeyErrorNotIn))

\* Mutant of delitem: a key that is only in the overlay gets the marker too.
delitemAlwaysMarks(D, W, w, key) ==
    IF key \in DOMAIN D[W[w]._original] \/ key \in DOMAIN W[w]._overlay
    THEN Outcome(D, [W EXCEPT ![w]._overlay = Put(@, key, Undefined)], Returned(None))
    ELSE Outcome(D, W, Raised(KeyErrorNotIn))

\* Mutant of delitem: a key already marked deleted is not found.
delitemVisibleOnly(D, W, w, key) ==
    IF key \in DOMAIN W[w]._overlay /\ W[w]._overlay[key] = Undefined
    THEN Outcome(D, W, Raised(KeyErrorNotIn))
    ELSE IF key \in DOMAIN D[W[w]._original]
         THEN Outcome(D, [W EXCEPT ![w]._overlay = Put(@, key, Undefined)], Returned(None))
         ELSE IF key \in DOMAIN W[w]._overlay
              THEN Outcome(D, [W EXCEPT ![w]._overlay = Remove(@, key)], Returned(None))
              ELSE Outcome(D, W, Raised(KeyErrorNotIn))

\* __delitem__, lines 130-136
delitem(D, W, w, key) ==
    IF key \in DOMAIN D[W[w]._original]
    THEN Outcome(D, [W EXCEPT ![w]._overlay = Put(@, key, Undefined)], Returned(None))
    ELSE IF key \in DOMAIN W[w]._overlay
         THEN Outcome(D, [W EXCEPT ![w]._overlay = Remove(@, key)], Returned(None))
         ELSE Outcome(D, W, Raised(KeyErrorNotIn))

\* Mutant of contains: keys staged only in the overlay are not found.
containsOriginalOnly(D, W, w, key) ==
    /\ (key \notin DOMAIN W[w]._overlay \/ W[w]._overlay[key] # Undefined)
    /\ key \in DOMAIN D[W[w]._original]

\* __contains__, lines 156-158
contains(D, W, w, key) ==
    /\ (key \notin DOMAIN W[w]._overlay \/ W[w]._overlay[key] # Undefined)
    /\ (key \in DOMAIN D[W[w]._original] \/ key \in DOMAIN W[w]._overlay)

\* __keys, lines 147-151 (keys() and __iter__ list or iterate this set)
keys(D, W, w) ==
    {key \in (DOMAIN D[W[w]._original]) \cup (DOMAIN W[w]._overlay) :
        (IF key \in DOMAIN W[w]._overlay THEN W[w]._overlay[key] ELSE None) # Undefined}

\* diff, lines 102-110.  An entry is <<"nested", diff of the nested wrapper>> or
\* <<"pair", <<old, new>>>>.
RECURSIVE diff(_, _, _)
diff(D, W, w) ==
    [key \in DOMAIN W[w]._overlay |->
        LET value == W[w]._overlay[key]
            original == D[W[w]._original]
        IN  IF IsTransactionalDict(value)
            THEN <<"nested", diff(D, W, Id(value))>>
            ELSE <<"pair", << IF key \in DOMAIN original THEN original[key] ELSE Undefined,
                              value >> >>]

\* Mutant of diffCall: the entries diff() reports are dropped from the overlay.
diffCallClears(D, W, w) ==
    Outcome(D, [W EXCEPT ![w]._overlay = EmptyDict], Returned(diff(D, W, w)))

\* A call of diff(), lines 102-110: the heap after it and what it returns.
diffCall(D, W, w) == Outcome(D, W, Returned(diff(D, W, w)))

\* __iter__, lines 141-142: an iterator over the key set.  keys(), lines
\* 144-145, is the list of the same set.
iter(D, W, w) == <<"iterator", keys(D, W, w)>>
keysList(D, W, w) == <<"list", keys(D, W, w)>>

\* The builtin len(): an iterator has no length.
TypeError == <<"TypeError", "object of type 'set_iterator' has no len()">>
builtinLen(v) ==
    IF v[1] = "iterator" THEN Raised(TypeError) ELSE Returned(<<"i", Cardinality(v[2])>>)

\* __len__, lines 112-113: len(self.__iter__())
len(D, W, w) == builtinLen(iter(D, W, w))

\* commit, lines 82-92.  S is the heap while the loop runs, with the exception
\* in flight, if any: `del self._original[key]` raises KeyError when the key is
\* not there, which ends every enclosing loop before its overlay is cleared.
NoException == <<"none", "">>
Heap(D, W) == [dicts |-> D, wrappers |-> W, exc |-> NoException]

RECURSIVE commit(_, _)

\* Mutant of commitNested: the nested wrapper's original is stored without
\* committing the nested wrapper.
commitNestedShallow(S, w, key) ==
    [S EXCEPT !.dicts[S.wrappers[w]._original] =
        Put(@, key, DictRef(S.wrappers[Id(S.wrappers[w]._overlay[key])]._original))]

\* line 86: self._original[key] = value.commit()
commitNested(S, w, key) ==
    LET value == S.wrappers[w]._overlay[key]
        R == commit(S, Id(value))
    IN  IF R.exc # NoException
        THEN R
        ELSE [R EXCEPT !.dicts[R.wrappers[w]._original] =
                Put(@, key, DictRef(R.wrappers[Id(value)]._original))]

\* Mutant of commitDelete: a key marked deleted is left in the original.
commitDeleteSkipped(S, w, key) == S

\* Mutant of commitDelete: the marker is stored like a value.
commitDeleteStoresMarker(S, w, key) ==
    [S EXCEPT !.dicts[S.wrappers[w]._original] = Put(@, key, Undefined)]

\* line 88: del self._original[key]
commitDelete(S, w, key) ==
    IF key \in DOMAIN S.dicts[S.wrappers[w]._original]
    THEN [S EXCEPT !.dicts[S.wrappers[w]._original] = Remove(@, key)]
    ELSE [S EXCEPT !.exc = KeyErrorKey]

\* line 90: self._original[key] = value
commitStore(S, w, key) ==
    [S EXCEPT !.dicts[S.wrappers[w]._original] = Put(@, key, S.wrappers[w]._overlay[key])]

\* lines 84-90: the loop over the overlay's items.  The items are taken in some
\* order; each one writes its own key of self._original only.
RECURSIVE commitItems(_, _, _)
commitItems(S, w, todo) ==
    IF todo = {} \/ S.exc # NoException
    THEN S
    ELSE LET key == CHOOSE x \in todo : TRUE
             value == S.wrappers[w]._overlay[key]
             S1 == IF IsTransactionalDict(value) THEN commitNested(S, w, key)
                   ELSE IF value = Undefined THEN commitDelete(S, w, key)
                   ELSE commitStore(S, w, key)
         IN  commitItems(S1, w, todo \ {key})

\* Mutant of commit: the overlay is not cleared.
commitKeepsOverlay(S, w) == commitItems(S, w, DOMAIN S.wrappers[w]._overlay)

commit(S, w) ==
    LET S1 == commitItems(S, w, DOMAIN S.wrappers[w]._overlay)
    IN  IF S1.exc # NoException
        THEN S1
        ELSE [S1 EXCEPT !.wrappers[w]._overlay = EmptyDict]

\* Mutant of abort: the staged changes are applied instead of dropped.
abortCommits(S, w) == commit(S, w)

\* abort, lines 94-100
RECURSIVE abort(_, _)
RECURSIVE abortItems(_, _, _)
abortItems(S, w, todo) ==
    IF todo = {}
    THEN S
    ELSE LET key == CHOOSE x \in todo : TRUE
             value == S.wrappers[w]._overlay[key]
         IN  abortItems(IF IsTransactionalDict(value) THEN abort(S, Id(value)) ELSE S,
                        w, todo \ {key})

\* Mutant of abort: nested wrappers are not aborted.
abortShallow(S, w) == [S EXCEPT !.wrappers[w]._overlay = EmptyDict]

abort(S, w) ==
    [abortItems(S, w, DOMAIN S.wrappers[w]._overlay) EXCEPT !.wrappers[w]._overlay = EmptyDict]

\* The wrappers a commit() or abort() of w reaches: w and, recursively, the
\* wrappers its overlay holds.
RECURSIVE Tree(_, _)
Tree(W, w) ==
    {w} \cup UNION { Tree(W, Id(W[w]._overlay[key])) :
                      key \in {x \in DOMAIN W[w]._overlay : IsTransactionalDict(W[w]._overlay[x])} }

\* What commit() and abort() return or raise, lines 92 and 100.
Result(S, w) ==
    IF S.exc # NoException THEN Raised(S.exc) ELSE Returned(DictRef(S.wrappers[w]._original))

\* ------------------------------------------------------------ the callers
\* The bases a transaction is opened over: nested three deep, nested with a key
\* that is only in the nested dict, and flat.
InitBases ==
    { << [k \in {"a", "n"} |-> IF k = "a" THEN <<"s", "x">> ELSE DictRef(2)],
         [k \in {"a", "n"} |-> IF k = "a" THEN <<"s", "x">> ELSE DictRef(3)],
         [k \in {"a"} |-> <<"s", "x">>] >>,
      << [k \in {"n"} |-> DictRef(2)],
         [k \in {"a"} |-> <<"s", "x">>] >>,
      << [k \in {"a"} |-> <<"s", "x">>] >> }

\* The dict literal a caller stages as a value: {"a": 1}
Literal == [k \in {"a"} |-> <<"s", "x">>]

Running == pc \in {"api", "body"} /\ steps < MaxSteps

\* The reference dict after the same call: a set or delete that succeeded on
\* the top-level wrapper is made on it (del of a key it does not have raises
\* and leaves it as it is); other calls do not touch it.
refAfter(r, call) ==
    IF call.w = Root /\ call.res[1] = "return" /\ call.op = "set"
    THEN Put(r, call.key, call.val)
    ELSE IF call.w = Root /\ call.res[1] = "return" /\ call.op = "del"
         THEN Remove(r, call.key)
         ELSE r

Step(R, call) ==
    /\ Len(R.wrappers) <= MaxWrappers
    /\ dicts' = R.dicts
    /\ wrappers' = R.wrappers
    /\ last' = After(last, call)
    /\ steps' = steps + 1
    /\ ref' = refAfter(ref, call)
    /\ UNCHANGED <<B0, pc, arg, made, since>>

\* d[key]
GetItem(w, key) ==
    /\ Running
    /\ LET R == getitem(dicts, wrappers, w, key)
       IN  Step(R, Call("get", w, key, None, R.res))

\* d[key] = value, value a scalar
SetItem(w, key, value) ==
    /\ Running
    /\ LET R == setitem(dicts, wrappers, w, key, value)
       IN  Step(R, Call("set", w, key, value, R.res))

\* d[key] = {"a": 1}: the caller builds a new dict and stages it
SetItemDict(w, key) ==
    /\ Running
    /\ Len(dicts) < MaxDicts
    /\ LET D == Append(dicts, Literal)
           R == setitem(D, wrappers, w, key, DictRef(Len(D)))
       IN  Step(R, Call("set", w, key, DictRef(Len(D)), R.res))

\* del d[key]
DelItem(w, key) ==
    /\ Running
    /\ LET R == delitem(dicts, wrappers, w, key)
       IN  Step(R, Call("del", w, key, None, R.res))

\* d.commit() on the top-level wrapper; the next transaction starts from the result
Commit ==
    /\ pc = "api"
    /\ steps < MaxSteps
    /\ steps' = steps + 1
    /\ LET S == commit(Heap(dicts, wrappers), Root)
       IN  /\ dicts' = S.dicts
           /\ wrappers' = S.wrappers
           /\ last' = After(last, Call("commit", Root, NoKey, diff(dicts, wrappers, Root),
                                       Result(S, Root)))
           /\ B0' = Deep(S.dicts, 1)
    /\ since' = Len(wrappers)
    /\ UNCHANGED <<pc, arg, made, ref>>

\* d.abort() on the top-level wrapper
Abort ==
    /\ pc = "api"
    /\ steps < MaxSteps
    /\ steps' = steps + 1
    /\ LET S == abort(Heap(dicts, wrappers), Root)
       IN  /\ dicts' = S.dicts
           /\ wrappers' = S.wrappers
           /\ last' = After(last, Call("abort", Root, NoKey, diff(dicts, wrappers, Root),
                                       Result(S, Root)))
           /\ B0' = Deep(S.dicts, 1)
           /\ ref' = S.dicts[1]
    /\ since' = Len(wrappers)
    /\ UNCHANGED <<pc, arg, made>>

Init ==
    /\ dicts \in InitBases
    /\ wrappers = << TransactionalDict(1) >>
    /\ last = Call("init", Root, NoKey, None, Returned(WrapRef(Root)))
    /\ B0 = Deep(dicts, 1)
    /\ pc = "api"
    /\ arg = DictRef(1)
    /\ made = << >>
    /\ steps = 0
    /\ since = Len(wrappers)
    /\ ref = dicts[1]

Methods ==
    \/ \E w \in Wrappers, key \in Keys : GetItem(w, key)
    \/ \E w \in Wrappers, key \in Keys, value \in Scalars : SetItem(w, key, value)
    \/ \E w \in Wrappers, key \in Keys : SetItemDict(w, key)
    \/ \E w \in Wrappers, key \in Keys : DelItem(w, key)

Next ==
    \/ Methods
    \/ Commit
    \/ Abort

Spec == Init /\ [][Next]_vars

\* --------------------------------------------------------- transaction()
AssertionError == <<"AssertionError", "">>
\* What the body of a `with transaction(...)` block may raise.  KeyboardInterrupt
\* stands for the exceptions that derive from BaseException and not from Exception.
BodyExceptions ==
    {<<"Exception", "">>, KeyErrorKey, <<"KeyboardInterrupt", "">>}
IsException(e) == e[1] \in {"Exception", "KeyError", "AssertionError"}

\* Lines 192-195, from the yield on: e is the exception the body raised, or
\* NoException when the body ran to its end.  The result is the heap, the calls
\* made on the wrapper and the exception that leaves the with statement.
Left(S, calls, e) == [dicts |-> S.dicts, wrappers |-> S.wrappers, made |-> calls, exc |-> e]
\* Mutant of exitScope: nothing is committed when the body ends normally.
exitScopeNoCommit(D, W, e) ==
    IF e = NoException
    THEN Left(Heap(D, W), << >>, NoException)
    ELSE IF IsException(e)
         THEN Left(abort(Heap(D, W), Root), <<"abort">>, e)
         ELSE Left(Heap(D, W), << >>, e)

\* Mutant of exitScope: the except clause commits instead of aborting.
exitScopeCommitsOnError(D, W, e) ==
    LET S == commit(Heap(D, W), Root)
    IN  IF e = NoException
        THEN Left(S, <<"commit">>, S.exc)
        ELSE IF IsException(e)
             THEN Left(S, <<"commit">>, e)
             ELSE Left(Heap(D, W), << >>, e)

exitScope(D, W, e) ==
    IF e = NoException
    THEN LET S == commit(Heap(D, W), Root)
         IN  IF S.exc = NoException
             THEN Left(S, <<"commit">>, NoException)
             ELSE Left(abort(Heap(S.dicts, S.wrappers), Root), <<"commit", "abort">>, S.exc)
    ELSE IF IsException(e)
         THEN Left(abort(Heap(D, W), Root), <<"abort">>, e)
         ELSE Left(Heap(D, W), << >>, e)

\* Lines 188-191: the assertion, then the wrapper is made and yielded.
Enter ==
    /\ pc = "call"
    /\ IF IsDict(arg)
       THEN /\ wrappers' = Append(wrappers, TransactionalDict(Id(arg)))
            /\ pc' = "body"
            /\ last' = Call("enter", Root, NoKey, None, Returned(WrapRef(Len(wrappers) + 1)))
       ELSE /\ wrappers' = wrappers
            /\ pc' = "raised"
            /\ last' = Call("enter", Root, NoKey, None, Raised(AssertionError))
    /\ UNCHANGED <<dicts, B0, arg, made, steps, since, ref>>

Leave(e) ==
    /\ pc = "body"
    /\ LET L == exitScope(dicts, wrappers, e)
       IN  /\ dicts' = L.dicts
           /\ wrappers' = L.wrappers
           /\ made' = L.made
           /\ pc' = IF L.exc = NoException THEN "done" ELSE "raised"
           /\ last' = Call("exit", Root, NoKey, e,
                           IF L.exc = NoException THEN Returned(None) ELSE Raised(L.exc))
    /\ UNCHANGED <<B0, arg, steps, since, ref>>

\* The body runs to its end.
BodyReturn == Leave(NoException)

\* The body raises e.
BodyRaise(e) == Leave(e)

ScopedInit ==
    /\ dicts \in InitBases
    /\ \/ arg = DictRef(1) /\ wrappers = << >>
       \/ arg = <<"s", "x">> /\ wrappers = << >>
       \/ arg = WrapRef(1) /\ wrappers = << TransactionalDict(1) >>
    /\ last = Call("init", Root, NoKey, None, Returned(None))
    /\ B0 = Deep(dicts, 1)
    /\ pc = "call"
    /\ made = << >>
    /\ steps = 0
    /\ since = Len(wrappers)
    /\ ref = dicts[1]

ScopedNext ==
    \/ Enter
    \/ Methods
    \/ BodyReturn
    \/ \E e \in BodyExceptions : BodyRaise(e)

ScopedSpec == ScopedInit /\ [][ScopedNext]_vars

\* ================================================================ claims
\* Helpers of the properties below.
DeepVal(D, v) == IF IsDict(v) THEN <<"m", Deep(D, Id(v))>> ELSE v
Linked(W, p, key, w) == key \in DOMAIN W[p]._overlay /\ W[p]._overlay[key] = WrapRef(w)
HasNestedChange(d) ==
    \E k \in DOMAIN d : d[k][1] = "nested" /\ DOMAIN d[k][2] # {}
HasDeletion(d) ==
    \E k \in DOMAIN d : d[k][1] = "pair" /\ d[k][2][2] = Undefined

\* The dict o of Dpost is the dict o of Dpre with the diff Dif applied: a pair
\* (old, new) leaves new under its key, or no key when new is Undefined; a nested
\* diff is applied to the dict under its key; every other key is as it was.
RECURSIVE Applied(_, _, _, _)
Applied(Dif, Dpre, Dpost, o) ==
    /\ \A k \in DOMAIN Dif :
          IF Dif[k][1] = "nested"
          THEN /\ k \in DOMAIN Dpost[o]
               /\ IsDict(Dpost[o][k])
               /\ Applied(Dif[k][2], Dpre, Dpost, Id(Dpost[o][k]))
          ELSE IF Dif[k][2][2] = Undefined
               THEN k \notin DOMAIN Dpost[o]
               ELSE k \in DOMAIN Dpost[o] /\ Dpost[o][k] = Dif[k][2][2]
    /\ \A k \in Keys \ DOMAIN Dif :
          /\ k \in DOMAIN Dpost[o] <=> k \in DOMAIN Dpre[o]
          /\ k \in DOMAIN Dpre[o] => DeepVal(Dpost, Dpost[o][k]) = DeepVal(Dpre, Dpre[o][k])

\* The original of wrapper w in Dpost is its original in Dpre with w's overlay
\* (as it is in W) folded in: staged values stored, marked keys gone, nested
\* wrappers replaced by their originals, every other key as it was.
Folded(W, Dpre, Dpost, w) ==
    LET ov == W[w]._overlay
        o == W[w]._original
    IN  \A key \in Keys :
          IF key \in DOMAIN ov
          THEN IF ov[key] = Undefined
               THEN key \notin DOMAIN Dpost[o]
               ELSE /\ key \in DOMAIN Dpost[o]
                    /\ Dpost[o][key] = IF IsTransactionalDict(ov[key])
                                       THEN DictRef(W[Id(ov[key])]._original)
                                       ELSE ov[key]
          ELSE /\ key \in DOMAIN Dpost[o] <=> key \in DOMAIN Dpre[o]
               /\ key \in DOMAIN Dpre[o] => Dpost[o][key] = Dpre[o][key]

\* C1: while the transaction is open (no commit() or abort() since it began),
\* the base, at every nesting depth, equals what it was when the transaction
\* began, whatever get, set and delete calls were made on the wrapper and on
\* the nested wrappers it handed out (contains, keys and diff only read).
C1_BaseUnchangedWhileOpen == Deep(dicts, 1) = B0

C1_Witness ==
    /\ last.op \in {"set", "del"}
    /\ last.res = Returned(None)
    /\ last.w # Root
    /\ last.w \in Tree(wrappers, Root)
    /\ \E k \in DOMAIN Overlay(Root) : Overlay(Root)[k] = Undefined

\* C2: commit() leaves the base as the diff() taken just before it says: under
\* every key of the diff the new side (no key when it is Undefined), nested
\* diffs applied to the nested dict, and every key not in the diff unchanged.
C2_CommitAppliesDiff ==
    [][last'.op = "commit" =>
          Applied(diff(dicts, wrappers, Root), dicts, dicts', wrappers[Root]._original)]_vars

C2_Witness ==
    /\ last.op = "commit"
    /\ last.res[1] = "return"
    /\ HasNestedChange(last.val)
    /\ HasDeletion(last.val)

\* C3: abort() returns the base, and the base (every dict of it) is what it was
\* when the transaction began, whatever was staged on the wrapper and on the
\* nested wrappers obtained from it.
C3_AbortRestoresBase ==
    [][last'.op = "abort" =>
          /\ last'.res = Returned(DictRef(wrappers[Root]._original))
          /\ dicts' = dicts
          /\ Deep(dicts', 1) = B0]_vars

C3_Witness ==
    /\ last.op = "abort"
    /\ HasNestedChange(last.val)
    /\ \E k \in DOMAIN last.val : last.val[k][1] = "pair" /\ last.val[k][2][1] # last.val[k][2][2]

\* C4: get(key) resolves overlay over base: a staged entry that is not the
\* deletion marker is returned; the marker raises the 'deleted' KeyError;
\* otherwise a base value is returned, a base dict wrapped in a new nested
\* wrapper over that dict; a key in neither raises the 'not found' KeyError.
C4_GetShadowing ==
    [][last'.op = "get" =>
          LET w == last'.w
              key == last'.key
              ov == wrappers[w]._overlay
              orig == dicts[wrappers[w]._original]
          IN  IF key \in DOMAIN ov /\ ov[key] # Undefined
              THEN last'.res = Returned(ov[key])
              ELSE IF key \in DOMAIN ov
              THEN last'.res = Raised(KeyErrorDeleted)
              ELSE IF key \notin DOMAIN orig
              THEN last'.res = Raised(KeyErrorKey)
              ELSE IF IsDict(orig[key])
              THEN \E x \in (1..Len(wrappers')) \ Wrappers :
                      /\ last'.res = Returned(WrapRef(x))
                      /\ wrappers'[x] = TransactionalDict(Id(orig[key]))
              ELSE last'.res = Returned(orig[key])]_vars

C4_Witness ==
    /\ last.op = "get"
    /\ last.res = Returned(<<"s", "y">>)
    /\ last.key \in DOMAIN Original(last.w)
    /\ Original(last.w)[last.key] = <<"s", "x">>

\* C5: a set or delete made through a nested wrapper that the top-level wrapper
\* (or a wrapper below it) returns for key k is seen through get(k) and leaves
\* every dict of the base as it was; commit() on the top-level wrapper then
\* folds the overlay of every wrapper below it, at every depth, into the dict
\* that wrapper was made over, and the base keeps that dict under k.
C5_NestedEdits ==
    [][/\ (/\ last'.op \in {"set", "del"}
           /\ last'.res = Returned(None)
           /\ last'.w # Root
           /\ last'.w \in Tree(wrappers, Root))
          => /\ dicts' = [i \in 1..Len(dicts') |-> IF i <= Len(dicts) THEN dicts[i] ELSE dicts'[i]]
             /\ Deep(dicts', 1) = B0
             /\ \E p \in Tree(wrappers, Root), k \in Keys :
                   /\ Linked(wrappers, p, k, last'.w)
                   /\ getitem(dicts', wrappers', p, k).res = Returned(WrapRef(last'.w))
             /\ getitem(dicts', wrappers', last'.w, last'.key).res =
                   IF last'.op = "set" THEN Returned(last'.val)
                   ELSE IF last'.key \in DOMAIN dicts[wrappers[last'.w]._original]
                        THEN Raised(KeyErrorDeleted) ELSE Raised(KeyErrorKey)
       /\ last'.op = "commit"
          => \A w \in Tree(wrappers, Root) :
                /\ Folded(wrappers, dicts, dicts', w)
                /\ \A p \in Tree(wrappers, Root), k \in Keys :
                      Linked(wrappers, p, k, w)
                         => dicts'[wrappers[p]._original][k] = DictRef(wrappers[w]._original)
      ]_vars

C5_Witness ==
    /\ last.op = "commit"
    /\ "n" \in DOMAIN B0 /\ B0["n"][1] = "m"
    /\ "n" \in DOMAIN B0["n"][2] /\ B0["n"][2]["n"][1] = "m"
    /\ "a" \in DOMAIN B0["n"][2]["n"][2] /\ B0["n"][2]["n"][2]["a"] = <<"s", "y">>

\* C6: in a `with transaction(B)` block, while the body runs the base is what
\* it was at entry and nothing has been committed, a value staged on a wrapper
\* is read back through it; when the body ends without an exception, commit()
\* is called once (and nothing else), no exception leaves the block, and the
\* overlay of every wrapper of the tree has been folded into its dict.
C6_ScopeCommitsOnExit ==
    [][/\ pc' = "body" => Deep(dicts', 1) = B0 /\ made' = << >>
       /\ (pc' = "body" /\ last'.op = "set")
          => getitem(dicts', wrappers', last'.w, last'.key).res = Returned(last'.val)
       /\ (last'.op = "exit" /\ last'.val = NoException)
          => /\ made' = <<"commit">>
             /\ pc' = "done"
             /\ last'.res = Returned(None)
             /\ \A w \in Tree(wrappers, Root) :
                   /\ Folded(wrappers, dicts, dicts', w)
                   /\ wrappers'[w]._overlay = EmptyDict
      ]_vars

C6_Witness ==
    /\ pc = "done"
    /\ made = <<"commit">>
    /\ Deep(dicts, 1) # B0
    /\ Len(wrappers) >= 2

\* C7: when the body of a `with transaction(B)` block raises, nothing is
\* committed, every dict of the base is what it was at entry, and the same
\* exception leaves the block; when it is an error (an instance of Exception,
\* which the except clause names), abort() is called, once, and the overlays of
\* the wrapper and of the nested wrappers it holds are empty.
C7_ScopeAbortsOnError ==
    [][(last'.op = "exit" /\ last'.val # NoException)
          => /\ \A i \in 1..Len(made') : made'[i] # "commit"
             /\ dicts' = dicts
             /\ Deep(dicts', 1) = B0
             /\ last'.res = Raised(last'.val)
             /\ pc' = "raised"
             /\ IsException(last'.val)
                   => /\ made' = <<"abort">>
                      /\ \A w \in Tree(wrappers, Root) : wrappers'[w]._overlay = EmptyDict
      ]_vars

C7_Witness ==
    /\ pc = "raised"
    /\ made = <<"abort">>
    /\ last.res = Raised(KeyErrorKey)
    /\ Len(wrappers) >= 2
    /\ steps >= 3

\* C8: get of a key marked deleted raises the 'deleted' KeyError; get and delete
\* of a key that is in neither the original nor the overlay raise a KeyError
\* that is not the 'deleted' one; a get or delete that raises leaves every
\* overlay and every dict as it was.
C8_FailingCallsChangeNothing ==
    [][last'.op \in {"get", "del"} =>
          LET w == last'.w
              key == last'.key
              ov == wrappers[w]._overlay
              orig == dicts[wrappers[w]._original]
          IN  /\ (last'.op = "get" /\ key \in DOMAIN ov /\ ov[key] = Undefined)
                    => last'.res = Raised(KeyErrorDeleted)
              /\ (key \notin DOMAIN ov /\ key \notin DOMAIN orig)
                    => /\ last'.res = Raised(IF last'.op = "get" THEN KeyErrorKey
                                             ELSE KeyErrorNotIn)
                       /\ last'.res # Raised(KeyErrorDeleted)
              /\ last'.res[1] = "raise" => dicts' = dicts /\ wrappers' = wrappers
      ]_vars

C8_Witness ==
    /\ last.op = "get"
    /\ last.res = Raised(KeyErrorDeleted)
    /\ Overlay(last.w)[last.key] = Undefined

\* C9: a delete that succeeds on a key that is not in the original (so the key
\* was set in this transaction) leaves no overlay entry for the key: contains
\* is false, diff has no entry for it, and a commit of the wrapper that follows
\* leaves the key out of the original.
C9_SetThenDeleteLeavesNothing ==
    [][(/\ last'.op = "del"
        /\ last'.res = Returned(None)
        /\ last'.key \notin DOMAIN dicts[wrappers[last'.w]._original])
          => LET w == last'.w
                 key == last'.key
                 S == commit(Heap(dicts', wrappers'), w)
             IN  /\ key \notin DOMAIN wrappers'[w]._overlay
                 /\ ~contains(dicts', wrappers', w, key)
                 /\ key \notin DOMAIN diff(dicts', wrappers', w)
                 /\ S.exc = NoException
                 /\ key \notin DOMAIN S.dicts[wrappers[w]._original]
      ]_vars

C9_Witness ==
    /\ last.op = "del"
    /\ last.res = Returned(None)
    /\ last.chain = <<"set", "get">>
    /\ last.key \notin DOMAIN Original(last.w)
    /\ last.key \notin DOMAIN Overlay(last.w)

\* C10: delete(k), then set(k, v), then get(k): the get returns v, contains(k)
\* is true, and a commit of the wrapper that follows leaves v under k in the
\* original.
C10_DeleteSetGet ==
    [][(/\ last.op = "set"
        /\ Len(last.chain) > 0
        /\ last.chain[Len(last.chain)] = "del"
        /\ last'.op = "get"
        /\ last'.w = last.w
        /\ last'.key = last.key)
          => LET w == last.w
                 key == last.key
                 S == commit(Heap(dicts', wrappers'), w)
             IN  /\ last'.res = Returned(last.val)
                 /\ contains(dicts', wrappers', w, key)
                 /\ S.exc = NoException
                 /\ key \in DOMAIN S.dicts[wrappers[w]._original]
                 /\ S.dicts[wrappers[w]._original][key] = last.val
      ]_vars

C10_Witness ==
    /\ last.op = "get"
    /\ last.chain = <<"del", "set">>
    /\ last.res[1] = "return"
    /\ last.key \in DOMAIN Original(last.w)

\* The keys a wrapper shows: those of its original and of its overlay, less the
\* keys whose overlay entry is the deletion marker.
Visible(w) ==
    ((DOMAIN Original(w)) \cup (DOMAIN Overlay(w)))
        \ {k \in DOMAIN Overlay(w) : Overlay(w)[k] = Undefined}

\* C11: keys() and iteration yield exactly the visible keys (original and
\* overlay keys less those marked deleted), and contains(k) is true exactly for
\* them.
C11_KeysAndContains ==
    \A w \in Wrappers :
        /\ keysList(dicts, wrappers, w)[2] = Visible(w)
        /\ iter(dicts, wrappers, w)[2] = Visible(w)
        /\ \A k \in Keys : contains(dicts, wrappers, w, k) <=> k \in Visible(w)

C11_Witness ==
    \E w \in Wrappers, k1, k2 \in Keys :
        /\ k1 \in DOMAIN Original(w) /\ k1 \in DOMAIN Overlay(w) /\ Overlay(w)[k1] = Undefined
        /\ k2 \notin DOMAIN Original(w) /\ k2 \in DOMAIN Overlay(w)
        /\ Visible(w) = {k2}

\* C12: length() returns the number of visible keys and raises nothing.
C12_LengthIsKeyCount ==
    \A w \in Wrappers :
        LET r == len(dicts, wrappers, w)
        IN  r[1] = "return" /\ r[2] = <<"i", Cardinality(Visible(w))>>

\* C13: the first get of a key whose value in the original is a dict makes one
\* wrapper over that dict and stores it in the overlay; as long as no set or
\* delete of that key on that wrapper and no commit or abort is made, the
\* overlay keeps that wrapper, and a get of the key returns it, makes no other
\* wrapper and leaves what was staged on it.
C13_WrapperIdentity ==
    [][/\ (/\ last'.op = "get"
           /\ last'.key \notin DOMAIN wrappers[last'.w]._overlay
           /\ last'.key \in DOMAIN dicts[wrappers[last'.w]._original]
           /\ IsDict(dicts[wrappers[last'.w]._original][last'.key]))
          => /\ Len(wrappers') = Len(wrappers) + 1
             /\ last'.res = Returned(WrapRef(Len(wrappers')))
             /\ Linked(wrappers', last'.w, last'.key, Len(wrappers'))
             /\ wrappers'[Len(wrappers')]._original =
                   Id(dicts[wrappers[last'.w]._original][last'.key])
       /\ \A w \in Wrappers, k \in Keys, x \in Wrappers :
             (/\ Linked(wrappers, w, k, x)
              /\ last'.op \notin {"commit", "abort", "exit"}
              /\ ~(last'.op \in {"set", "del"} /\ last'.w = w /\ last'.key = k))
                => /\ Linked(wrappers', w, k, x)
                   /\ (last'.op = "get" /\ last'.w = w /\ last'.key = k)
                         => /\ last'.res = Returned(WrapRef(x))
                            /\ wrappers' = wrappers
      ]_vars

C13_Witness ==
    /\ last.op = "get"
    /\ last.res[1] = "return"
    /\ IsTransactionalDict(last.res[2])
    /\ Overlay(Id(last.res[2])) # EmptyDict
    /\ Linked(wrappers, last.w, last.key, Id(last.res[2]))

\* d is the diff of wrapper w: a key for every overlay key; a nested diff for a
\* nested wrapper, else the pair of the original's value (Undefined when the
\* original has no such key) and the staged value (Undefined when the key is
\* staged for deletion).
RECURSIVE IsDiffOf(_, _)
IsDiffOf(d, w) ==
    /\ DOMAIN d = DOMAIN Overlay(w)
    /\ \A k \in DOMAIN d :
          LET v == Overlay(w)[k]
          IN  IF IsTransactionalDict(v)
              THEN d[k][1] = "nested" /\ IsDiffOf(d[k][2], Id(v))
              ELSE /\ d[k][1] = "pair"
                   /\ d[k][2][1] = IF k \in DOMAIN Original(w) THEN Original(w)[k]
                                   ELSE Undefined
                   /\ d[k][2][2] = IF v = Undefined THEN Undefined ELSE v

\* C14: diff() has an entry for every overlay key, a nested diff for a nested
\* wrapper and else the pair (old, new) described above, and a call of diff()
\* leaves every overlay and every dict as it was.
C14_DiffShape ==
    \A w \in Wrappers :
        LET R == diffCall(dicts, wrappers, w)
        IN  /\ R.dicts = dicts
            /\ R.wrappers = wrappers
            /\ R.res[1] = "return"
            /\ IsDiffOf(R.res[2], w)

C14_Witness ==
    \E w \in Wrappers, k1, k2 \in Keys :
        LET d == diff(dicts, wrappers, w)
        IN  /\ k1 \in DOMAIN d /\ d[k1][1] = "pair"
            /\ d[k1][2][1] = Undefined /\ d[k1][2][2] \in Scalars
            /\ k2 \in DOMAIN d /\ d[k2][1] = "nested"
            /\ HasDeletion(d[k2][2])

\* C15: every pair (old, new) that diff() reports has old # new, so that a key
\* that was only read, or set to the value it has in the original, has no entry.
C15_DiffOnlyChanges ==
    \A w \in Wrappers :
        LET d == diff(dicts, wrappers, w)
        IN  \A k \in DOMAIN d : d[k][1] = "pair" => d[k][2][1] # d[k][2][2]

\* C16: a commit() made right after a commit() finds the overlay empty, changes
\* no dict and no overlay, and returns the same base.
C16_CommitTwice ==
    [][(last.op = "commit" /\ last.res[1] = "return" /\ last'.op = "commit")
          => /\ wrappers[Root]._overlay = EmptyDict
             /\ dicts' = dicts
             /\ wrappers' = wrappers
             /\ last'.res = last.res
             /\ last'.res = Returned(DictRef(wrappers[Root]._original))
      ]_vars

C16_Witness ==
    /\ last.op = "commit"
    /\ last.val = EmptyDict
    /\ \E k \in DOMAIN dicts[1] : dicts[1][k] \notin {<<"s", "x">>, DictRef(2)}
    /\ steps >= 3
    /\ Len(last.chain) > 0 /\ last.chain[Len(last.chain)] = "commit"

\* C18: no dict (the base at every depth, and every dict staged as a value)
\* holds the deletion marker or a wrapper under any key.
C18_NoMarkerOrWrapperInBase ==
    \A d \in 1..Len(dicts) : \A k \in DOMAIN dicts[d] :
        dicts[d][k] # Undefined /\ ~IsTransactionalDict(dicts[d][k])

C18_Witness ==
    /\ last.op = "commit"
    /\ last.res[1] = "return"
    /\ \E k \in DOMAIN last.val : last.val[k][1] = "nested" /\ HasDeletion(last.val[k][2])
    /\ \E k \in DOMAIN dicts[1] : IsDict(dicts[1][k])

\* C20 as claimed: delete(key) succeeds exactly when contains(key) was true
\* before the call and raises the 'not found' KeyError otherwise.
C20_DeleteIffContains ==
    [][last'.op = "del" =>
          IF contains(dicts, wrappers, last'.w, last'.key)
          THEN last'.res = Returned(None)
          ELSE last'.res = Raised(KeyErrorNotIn)]_vars

\* C20 as amended: delete(key) succeeds exactly when the key is in the original
\* or has an overlay entry, and raises the 'not found' KeyError otherwise; it
\* succeeds whenever contains(key) was true, and also for a key of the original
\* that is already marked deleted, whose marker stays.
C20_DeleteIffKnown ==
    [][last'.op = "del" =>
          LET w == last'.w
              key == last'.key
              known == \/ key \in DOMAIN dicts[wrappers[w]._original]
                       \/ key \in DOMAIN wrappers[w]._overlay
          IN  /\ last'.res = IF known THEN Returned(None) ELSE Raised(KeyErrorNotIn)
              /\ contains(dicts, wrappers, w, key) => known
              /\ (key \in DOMAIN wrappers[w]._overlay /\ wrappers[w]._overlay[key] = Undefined)
                    => /\ last'.res = Returned(None)
                       /\ wrappers' = wrappers
      ]_vars

C20_Witness ==
    /\ last.op = "del"
    /\ last.res = Returned(None)
    /\ Len(last.chain) > 0 /\ last.chain[Len(last.chain)] = "del"
    /\ last.key \in DOMAIN Original(last.w)
    /\ Overlay(last.w)[last.key] = Undefined

\* C17 as claimed: after commit() or abort() on the top-level wrapper, its
\* overlay and the overlay of every wrapper made during the transaction are
\* empty, those whose key was overwritten or deleted afterwards included.
C17_AllOverlaysCleared ==
    [][(last'.op \in {"commit", "abort"} /\ last'.res[1] = "return")
          => \A w \in {Root} \cup ((since + 1)..Len(wrappers)) :
                wrappers'[w]._overlay = EmptyDict]_vars

\* C17 as amended: after commit() or abort() on the top-level wrapper, its
\* overlay and the overlay of every wrapper that an overlay of its tree still
\* held when the call was made are empty; every other wrapper (one whose key
\* was overwritten or deleted) is left as it was, staged changes included.
C17_TreeOverlaysCleared ==
    [][(last'.op \in {"commit", "abort"} /\ last'.res[1] = "return")
          => \A w \in Wrappers :
                IF w \in Tree(wrappers, Root)
                THEN wrappers'[w]._overlay = EmptyDict
                ELSE wrappers'[w] = wrappers[w]]_vars

C17_Witness ==
    /\ last.op \in {"commit", "abort"}
    /\ last.res[1] = "return"
    /\ HasNestedChange(last.val)
    /\ Overlay(Root) = EmptyDict
    /\ \E w \in Wrappers : Overlay(w) # EmptyDict

\* Base, staged values and reference dict hold scalars only.
Flat ==
    /\ \A k \in DOMAIN dicts[1] : dicts[1][k] \in Scalars
    /\ \A k \in DOMAIN Overlay(Root) : Overlay(Root)[k] \in Scalars \cup {Undefined}
    /\ \A k \in DOMAIN ref : ref[k] \in Scalars

Agrees ==
    /\ keys(dicts, wrappers, Root) = DOMAIN ref
    /\ \A k \in Keys :
          LET r == getitem(dicts, wrappers, Root, k).res
          IN  IF k \in DOMAIN ref THEN r = Returned(ref[k]) ELSE r[1] = "raise"
    /\ last.op = "commit" => dicts[1] = ref

\* C19 as claimed: over a base of scalars, every set and delete that succeeds
\* on the top-level wrapper can be applied to the reference dict (a delete
\* finds its key there), keys() and get() agree with the reference dict, and
\* after commit() the base is the reference dict.
C19_EveryCallApplies ==
    [][/\ (Flat /\ last'.op = "del" /\ last'.w = Root /\ last'.res[1] = "return")
            => last'.key \in DOMAIN ref
       /\ Flat' => Agrees']_vars

\* C19 as amended: over a base of scalars, with the reference dict receiving
\* the successful set and delete calls except a delete of a key it no longer
\* has, keys() and get() on the top-level wrapper agree with the reference
\* dict, and after commit() the base is the reference dict.
C19_RefinesPlainDict == Flat => Agrees

C19_Witness ==
    /\ last.op = "commit"
    /\ Flat
    /\ B0 = ref
    /\ DOMAIN ref = {"n"}
    /\ ref["n"] = <<"s", "y">>
    /\ since = 1

====
